---- MODULE Spec2Model ----
(***************************************************************************)
(* Model of satosa/plugin_loader.py: the capability filters, the plugin    *)
(* loader _load_plugins with its two resolvers, the endpoint module        *)
(* assembler and load_micro_services.                                      *)
(***************************************************************************)
EXTENDS Integers, Sequences, FiniteSets, TLC

VARIABLES
    bases,               \* class statements in force: class name -> set of direct base classes
    member,              \* the object handed to the capability filters
    verdict,             \* filter name -> what the filter call produced
    caller,              \* the public entry point that is running
    plugin_path,         \* _load_plugins: the search path list
    plugins,             \* _load_plugins: the plugin identifier list
    call,                \* which _load_plugins call of the caller is running (1 or 2)
    idx,                 \* position of the for loop in plugins
    loaded_plugins,      \* _load_plugins: local list
    loaded_plugin_names, \* _load_plugins: local list
    config,              \* _load_plugins: local name `config`
    log,                 \* the records handed to logger
    exc,                 \* the exception that left the entry point
    opened,              \* the files open() has handed to the declarative resolver
    request_services,    \* load_micro_services: local list
    endpoint_modules,    \* _load_endpoint_modules: the returned dict
    queues,              \* load_micro_services: the returned pair
    pc,                  \* where the entry point is
    template,            \* the endpoint branch on its own: config value, base_url, name
    rendered             \* what its dumps / replace / loads pipeline produced

filterVars == <<member, verdict>>

loaderVars ==
    <<caller, plugin_path, plugins, call, idx, loaded_plugins, loaded_plugin_names,
      config, log, exc, opened, request_services, endpoint_modules, queues, pc>>

substVars == <<template, rendered>>

vars == <<bases, filterVars, loaderVars, substVars>>

None == "None"

(***************************************************************************)
(* Classes.  A class object is its name; the other objects a module can    *)
(* export (strings, functions, loggers) are not classes.                   *)
(***************************************************************************)
EndpointMarkers == {"InterfaceModulePlugin", "BackendModulePlugin", "FrontendModulePlugin"}

MicroMarkers == {"MicroService", "RequestMicroService", "ResponseMicroService"}

Markers == EndpointMarkers \cup MicroMarkers

\* The class statements of plugin_base/endpoint.py and micro_service/service_base.py.
MarkerBases ==
    [c \in Markers |->
        CASE c = "InterfaceModulePlugin" -> {"object"}
          [] c = "BackendModulePlugin"   -> {"InterfaceModulePlugin"}
          [] c = "FrontendModulePlugin"  -> {"InterfaceModulePlugin"}
          [] c = "MicroService"          -> {"object"}
          [] c = "RequestMicroService"   -> {"MicroService"}
          [] c = "ResponseMicroService"  -> {"MicroService"}]

NonClasses == {"a_string", "a_function"}

Classes(b) == DOMAIN b \cup Markers \cup {"object"}

DirectBases(c, b) ==
    IF c \in Markers THEN MarkerBases[c]
    ELSE IF c \in DOMAIN b THEN b[c] ELSE {}

RECURSIVE Ancestors(_, _, _)
\* every class reachable from c through at most n class statements, c included
Ancestors(c, b, n) ==
    IF n = 0 THEN {c}
    ELSE {c} \cup UNION {Ancestors(d, b, n - 1) : d \in DirectBases(c, b)}

\* inspect.isclass
isclass(m, b) == m \in Classes(b)

\* the builtin issubclass: TypeError when the first argument is no class
issubclass(m, X, b) ==
    IF ~isclass(m, b) THEN "TypeError"
    ELSE IF X \in Ancestors(m, b, Cardinality(Classes(b))) THEN "True" ELSE "False"

\* Python's `x and y` on the outcomes above: y is evaluated only when x is true
PyAnd(x, y) == IF x = "True" THEN y ELSE x

PyBool(p) == IF p THEN "True" ELSE "False"

\* _member_filter with the two direct markers missing from its exclusion list
_member_filter_root_only(m, b) ==
    LET is_module == PyAnd(PyBool(isclass(m, b)), issubclass(m, "InterfaceModulePlugin", b))
        is_correct_subclass == PyBool(m # "InterfaceModulePlugin")
    IN  PyAnd(is_module, is_correct_subclass)

_member_filter(m, b) ==
    LET is_module == PyAnd(PyBool(isclass(m, b)), issubclass(m, "InterfaceModulePlugin", b))
        is_correct_subclass ==
            PyBool(m # "InterfaceModulePlugin" /\ m # "BackendModulePlugin"
                   /\ m # "FrontendModulePlugin")
    IN  PyAnd(is_module, is_correct_subclass)

backend_filter(m, b) == PyAnd(_member_filter(m, b), issubclass(m, "BackendModulePlugin", b))

frontend_filter(m, b) == PyAnd(_member_filter(m, b), issubclass(m, "FrontendModulePlugin", b))

_micro_service_filter(m, b) ==
    LET is_module == PyAnd(PyBool(isclass(m, b)), issubclass(m, "MicroService", b))
        is_correct_subclass ==
            PyBool(m # "MicroService" /\ m # "ResponseMicroService"
                   /\ m # "RequestMicroService")
    IN  PyAnd(is_module, is_correct_subclass)

_request_micro_service_filter(m, b) ==
    PyAnd(_micro_service_filter(m, b), issubclass(m, "RequestMicroService", b))

_response_micro_service_filter(m, b) ==
    PyAnd(_micro_service_filter(m, b), issubclass(m, "ResponseMicroService", b))

FilterNames ==
    {"backend_filter", "frontend_filter",
     "_request_micro_service_filter", "_response_micro_service_filter"}

\* calling the filter object named f
ApplyFilter(f, m, b) ==
    CASE f = "backend_filter"                 -> backend_filter(m, b)
      [] f = "frontend_filter"                -> frontend_filter(m, b)
      [] f = "_request_micro_service_filter"  -> _request_micro_service_filter(m, b)
      [] f = "_response_micro_service_filter" -> _response_micro_service_filter(m, b)

(***************************************************************************)
(* Configuration values and their JSON text.  A text is a sequence of      *)
(* one-character strings.  A value is a string, an integer (kept as its    *)
(* decimal digits), null, or an object: a sequence of <<key, value>> pairs *)
(* in insertion order, with distinct keys.                                 *)
(***************************************************************************)
Str(s) == [t |-> "str", s |-> s, items |-> <<>>]

Num(digits) == [t |-> "int", s |-> digits, items |-> <<>>]

Null == [t |-> "null", s |-> <<>>, items |-> <<>>]

Obj(items) == [t |-> "obj", s |-> <<>>, items |-> items]

QUOTE == "\""

BACKSLASH == "\\"

Digits == {"0", "1", "2", "3", "4", "5", "6", "7", "8", "9"}

RECURSIVE py_encode_basestring(_)
\* json.encoder: the body of a JSON string for the characters of s
py_encode_basestring(s) ==
    IF s = <<>> THEN <<>>
    ELSE LET c == Head(s)
         IN  (CASE c = QUOTE     -> <<BACKSLASH, QUOTE>>
                [] c = BACKSLASH -> <<BACKSLASH, BACKSLASH>>
                [] OTHER         -> <<c>>) \o py_encode_basestring(Tail(s))

DumpsStr(s) == <<QUOTE>> \o py_encode_basestring(s) \o <<QUOTE>>

RECURSIVE json_dumps(_)
RECURSIVE DumpsItems(_)
\* json.dumps with its default separators ", " and ": "
json_dumps(v) ==
    CASE v.t = "str"  -> DumpsStr(v.s)
      [] v.t = "int"  -> v.s
      [] v.t = "null" -> <<"n", "u", "l", "l">>
      [] v.t = "obj"  -> <<"{">> \o DumpsItems(v.items) \o <<"}">>

DumpsItems(items) ==
    IF items = <<>> THEN <<>>
    ELSE DumpsStr(items[1][1]) \o <<":", " ">> \o json_dumps(items[1][2])
         \o (IF Len(items) = 1 THEN <<>> ELSE <<",", " ">> \o DumpsItems(Tail(items)))

StartsWith(s, p) == Len(s) >= Len(p) /\ SubSeq(s, 1, Len(p)) = p

RECURSIVE str_replace(_, _, _)
\* str.replace(old, new): every non-overlapping occurrence, left to right
str_replace(s, old, new) ==
    IF s = <<>> THEN <<>>
    ELSE IF StartsWith(s, old)
         THEN new \o str_replace(SubSeq(s, Len(old) + 1, Len(s)), old, new)
         ELSE <<Head(s)>> \o str_replace(Tail(s), old, new)

\* ---- json.loads -------------------------------------------------------
ParseFail == [ok |-> FALSE, val |-> Null, pos |-> 0]

ParseOk(v, p) == [ok |-> TRUE, val |-> v, pos |-> p]

RECURSIVE SkipWs(_, _)
SkipWs(s, i) == IF i <= Len(s) /\ s[i] = " " THEN SkipWs(s, i + 1) ELSE i

\* the character a backslash escape stands for, None when the escape is invalid
Unescape(e) ==
    CASE e = QUOTE     -> QUOTE
      [] e = BACKSLASH -> BACKSLASH
      [] e = "/"       -> "/"
      [] e = "b"       -> "\\b"
      [] e = "f"       -> "\f"
      [] e = "n"       -> "\n"
      [] e = "r"       -> "\r"
      [] e = "t"       -> "\t"
      [] OTHER         -> None

RECURSIVE ScanString(_, _, _)
\* json.decoder.scanstring from the character after the opening quote
ScanString(s, i, acc) ==
    IF i > Len(s) THEN ParseFail
    ELSE IF s[i] = QUOTE THEN ParseOk(Str(acc), i + 1)
    ELSE IF s[i] = BACKSLASH
         THEN IF i + 1 > Len(s) \/ Unescape(s[i + 1]) = None THEN ParseFail
              ELSE ScanString(s, i + 2, Append(acc, Unescape(s[i + 1])))
    ELSE ScanString(s, i + 1, Append(acc, s[i]))

RECURSIVE ScanDigits(_, _)
ScanDigits(s, i) == IF i <= Len(s) /\ s[i] \in Digits THEN ScanDigits(s, i + 1) ELSE i

\* json.scanner NUMBER_RE restricted to integers: 0 | [1-9][0-9]*
ScanNumber(s, i) ==
    IF s[i] = "0" THEN ParseOk(Num(<<"0">>), i + 1)
    ELSE LET j == ScanDigits(s, i) IN ParseOk(Num(SubSeq(s, i, j - 1)), j)

\* dict(pairs): a repeated key keeps its first position and takes the last value
SetItem(items, k, v) ==
    IF \E n \in 1..Len(items) : items[n][1] = k
    THEN [n \in 1..Len(items) |-> IF items[n][1] = k THEN <<k, v>> ELSE items[n]]
    ELSE Append(items, <<k, v>>)

RECURSIVE ScanValue(_, _)
RECURSIVE ScanPairs(_, _, _)
\* json.scanner scan_once at position i
ScanValue(s, i) ==
    IF i > Len(s) THEN ParseFail
    ELSE IF s[i] = QUOTE THEN ScanString(s, i + 1, <<>>)
    ELSE IF s[i] = "{"
         THEN LET j == SkipWs(s, i + 1)
              IN  IF j <= Len(s) /\ s[j] = "}" THEN ParseOk(Obj(<<>>), j + 1)
                  ELSE ScanPairs(s, j, <<>>)
    ELSE IF s[i] \in Digits THEN ScanNumber(s, i)
    ELSE IF StartsWith(SubSeq(s, i, Len(s)), <<"n", "u", "l", "l">>) THEN ParseOk(Null, i + 4)
    ELSE ParseFail

\* json.decoder.JSONObject from the first key on
ScanPairs(s, i, items) ==
    IF i > Len(s) \/ s[i] # QUOTE THEN ParseFail
    ELSE LET k == ScanString(s, i + 1, <<>>)
         IN  IF ~k.ok THEN ParseFail
             ELSE LET c == SkipWs(s, k.pos)
                  IN  IF c > Len(s) \/ s[c] # ":" THEN ParseFail
                      ELSE LET v == ScanValue(s, SkipWs(s, c + 1))
                           IN  IF ~v.ok THEN ParseFail
                               ELSE LET e     == SkipWs(s, v.pos)
                                        items2 == SetItem(items, k.val.s, v.val)
                                    IN  IF e > Len(s) THEN ParseFail
                                        ELSE IF s[e] = "}" THEN ParseOk(Obj(items2), e + 1)
                                        ELSE IF s[e] = "," THEN ScanPairs(s, SkipWs(s, e + 1), items2)
                                        ELSE ParseFail

\* json.loads: one value, then nothing but whitespace; ValueError otherwise
json_loads(s) ==
    LET r == ScanValue(s, SkipWs(s, 1))
    IN  IF r.ok /\ SkipWs(s, r.pos) = Len(s) + 1
        THEN [raised |-> None, val |-> r.val]
        ELSE [raised |-> "ValueError", val |-> Null]

BASE_URL_TOKEN == <<"<", "b", "a", "s", "e", "_", "u", "r", "l", ">">>

NAME_TOKEN == <<"<", "n", "a", "m", "e", ">">>

\* the endpoint branch of _load_plugins: `config` after the replace loop
SubstituteText(cfg, base_url, name) ==
    LET config0 == json_dumps(cfg)
        config1 == str_replace(config0, BASE_URL_TOKEN, base_url)
    IN  str_replace(config1, NAME_TOKEN, name)

\* and what json.loads makes of it
SubstituteConfig(cfg, base_url, name) == json_loads(SubstituteText(cfg, base_url, name))

(***************************************************************************)
(* The installation the loader runs against: the plugin modules pluginbase *)
(* can import, the files in the search-path directories, and what the      *)
(* classes involved do when called.                                        *)
(***************************************************************************)
Chars_legacy == <<"l", "e", "g", "a", "c", "y">>

Chars_one == <<"o", "n", "e">>

Chars_two == <<"t", "w", "o">>

Chars_x == <<"x">>

\* config.BASE
BASE == <<"h", "/", "p">>

\* config.INTERNAL_ATTRIBUTES
INTERNAL_ATTRIBUTES == "internal_attributes"

\* the class statements of the installed plugin modules
WorldBases ==
    [c \in {"BackA", "BackB", "BackBad", "BackLazy", "FrontA",
            "ReqA", "ReqB", "RespA", "RespB", "ReqResp", "ReqBad", "Helper"} |->
        CASE c = "BackA"    -> {"BackendModulePlugin"}
          [] c = "BackB"    -> {"BackA"}
          [] c = "BackBad"  -> {"BackendModulePlugin"}
          [] c = "BackLazy" -> {"BackendModulePlugin"}
          [] c = "FrontA"   -> {"FrontendModulePlugin"}
          [] c = "ReqA"     -> {"RequestMicroService"}
          [] c = "ReqB"     -> {"ReqA"}
          [] c = "RespA"    -> {"ResponseMicroService"}
          [] c = "RespB"    -> {"ResponseMicroService"}
          [] c = "ReqResp"  -> {"RequestMicroService", "ResponseMicroService"}
          [] c = "ReqBad"   -> {"RequestMicroService"}
          [] c = "Helper"   -> {"object"}]

\* what calling a class does: "ok", or the exception its constructor raises
Ctor(c) ==
    CASE c = "BackBad"  -> "ValueError"
      [] c = "ReqBad"   -> "ValueError"
      [] c = "BackLazy" -> "ImportError"
      [] c = "BadModule" -> "ValueError"
      [] OTHER          -> "ok"

\* plugin_source.load_plugin(name): "ok" with the members of the module in the
\* order inspect.getmembers lists them (by name), or the exception it raises
NoModule == [load |-> "ImportError", members |-> <<>>]

Module(members) == [load |-> "ok", members |-> members]

load_plugin(name) ==
    CASE name = "backend_a"   -> Module(<<"BackA", "BackendModulePlugin", "a_function">>)
      [] name = "both_ends"   -> Module(<<"BackB", "FrontA", "InterfaceModulePlugin">>)
      [] name = "bad_ctor"    -> Module(<<"BackBad", "Helper">>)
      [] name = "late_import" -> Module(<<"BackA", "BackLazy">>)
      [] name = "broken_py"   -> [load |-> "SyntaxError", members |-> <<>>]
      [] name = "req_svc"     -> Module(<<"MicroService", "ReqA", "a_string">>)
      [] name = "resp_svc"    -> Module(<<"RespA", "ResponseMicroService">>)
      [] name = "mixed_svc"   -> Module(<<"ReqB", "RespB">>)
      [] name = "dual_svc"    -> Module(<<"ReqResp">>)
      [] name = "bad_svc"     -> Module(<<"ReqBad">>)
      [] OTHER                -> NoModule

\* what yaml.safe_load makes of a file's text
YamlNone == [kind |-> "none", map |-> <<>>]

YamlMap(m) == [kind |-> "map", map |-> m]

YamlScalar == [kind |-> "scalar", map |-> <<>>]

GoodText(v) == [yaml |-> "ok", value |-> v]

BadText(how) == [yaml |-> how, value |-> YamlNone]

NoFile == [yaml |-> "no_file", value |-> YamlNone]

Dirs == {"d1", "d2"}

\* open("%s/%s" % (path, module_file_name)).read(), NoFile when open raises IOError
FileAt(path, name) ==
    CASE name = "corrupt.yaml" /\ path = "d1" -> BadText("error_marked")
      [] name = "late_import" /\ path = "d2" -> BadText("error_unmarked")
      [] name = "no_module.yaml" /\ path = "d1" ->
            GoodText(YamlMap([name |-> Chars_one, plugin |-> "FrontendModulePlugin",
                              config |-> Obj(<<>>)]))
      [] name = "unresolved.yaml" /\ path = "d2" ->
            GoodText(YamlMap([name |-> Chars_two, plugin |-> "BackendModulePlugin",
                              module |-> "pkg.Missing", config |-> Obj(<<>>)]))
      [] name = "legacy_backend.conf" /\ path = "d1" ->
            GoodText(YamlMap([name |-> Chars_legacy, plugin |-> "BackendModulePlugin",
                              module |-> "pkg.Legacy",
                              config |-> Obj(<< <<Chars_x, Str(<<"<", "n", "a", "m", "e", ">">>)>> >>)]))
      [] name = "shadowed.yaml" /\ path = "d1" ->
            GoodText(YamlMap([name |-> Chars_one, plugin |-> "BackendModulePlugin",
                              module |-> "pkg.Legacy", config |-> Obj(<<>>)]))
      [] name = "shadowed.yaml" /\ path = "d2" ->
            GoodText(YamlMap([name |-> Chars_two, plugin |-> "FrontendModulePlugin",
                              module |-> "pkg.Legacy", config |-> Obj(<<>>)]))
      [] name = "svcA" /\ path = "d1" ->
            GoodText(YamlMap([plugin |-> "RequestMicroService", module |-> "pkg.SvcA"]))
      [] name = "svcB" /\ path = "d2" ->
            GoodText(YamlMap([plugin |-> "RequestMicroService", module |-> "pkg.SvcB",
                              config |-> Obj(<<>>)]))
      [] name = "svc_nomodule" /\ path = "d1" ->
            GoodText(YamlMap([plugin |-> "ResponseMicroService"]))
      [] name = "notes.txt" /\ path = "d2" -> GoodText(YamlScalar)
      [] OTHER -> NoFile

\* pydoc.locate(path): the class the dotted path names, None when there is none
locate(path) ==
    CASE path = "pkg.Legacy" -> "Legacy"
      [] path = "pkg.SvcA"   -> "SvcA"
      [] path = "pkg.SvcB"   -> "SvcB"
      [] OTHER               -> None

EndpointIds ==
    {"backend_a", "both_ends", "bad_ctor", "late_import", "broken_py", "absent",
     "corrupt.yaml", "no_module.yaml", "unresolved.yaml", "legacy_backend.conf",
     "shadowed.yaml"}

MicroIds ==
    {"req_svc", "resp_svc", "mixed_svc", "dual_svc", "bad_svc", "absent", "svcA", "svcB",
     "svc_nomodule", "notes.txt"}

(***************************************************************************)
(* _load_plugins                                                           *)
(***************************************************************************)
\* the local name `config` before its first assignment
Unbound == [t |-> "unbound", s |-> <<>>, items |-> <<>>]

\* `config` while it holds the JSON text
Text(s) == [t |-> "text", s |-> s, items |-> <<>>]

NoExc == [type |-> None, cause |-> None, ident |-> None]

Raised(type, cause, ident) == [type |-> type, cause |-> cause, ident |-> ident]

LogRecord(level, msg, arg) == [level |-> level, msg |-> msg, arg |-> arg]

\* the object a plugin class or module class call returns
Instance(cls, module, name, cfg, ia) ==
    [cls |-> cls, module |-> module, name |-> name, config |-> cfg, ia |-> ia]

\* the module, name and config attributes a code plugin class gives its instances
CodePluginModule(cls) == IF cls = "BackB" THEN "BadModule" ELSE "Legacy"

CodePluginName(cls) ==
    CASE cls = "BackA" -> <<"A">>
      [] cls = "BackB" -> <<"B">>
      [] cls = "BackLazy" -> <<"A">>
      [] OTHER -> <<"F">>

\* obj(base_url, *args) with args empty, as every caller in this file leaves it
NewCodePlugin(cls, base_url) ==
    Instance(cls, CodePluginModule(cls), CodePluginName(cls),
             Obj(<< <<<<"b">>, Str(base_url)>> >>), None)

\* what the loop body of one _load_plugins call changes: its locals, the log, the
\* exception in flight and the files it has opened
Locals(lp, lpn, cfg, lg, e, op) ==
    [loaded_plugins |-> lp, loaded_plugin_names |-> lpn, config |-> cfg, log |-> lg, exc |-> e,
     opened |-> op]

\* _load_plugin_config: yaml.safe_load, a YAMLError that carries a problem_mark
\* becomes SATOSAConfigurationError, one that carries none is swallowed
_load_plugin_config(text) ==
    CASE text.yaml = "ok"             -> [raised |-> None, value |-> text.value]
      [] text.yaml = "error_marked"   -> [raised |-> "SATOSAConfigurationError", value |-> YamlNone]
      [] text.yaml = "error_unmarked" -> [raised |-> None, value |-> YamlNone]

\* a loader that answers None for whatever it cannot load, as _readfile does
_config_loader_swallow(text) == [raised |-> None, value |-> YamlNone]

\* _config_loader(f.read()): the module binds no such name, the call is a NameError
_config_loader(text) == [raised |-> "NameError", value |-> YamlNone]

\* bool(_config)
Truthy(v) == v.kind = "scalar" \/ (v.kind = "map" /\ DOMAIN v.map # {})

\* k in _config
HasKey(v, k) == v.kind = "map" /\ k \in DOMAIN v.map

CharsOf(class_name) ==
    CASE class_name = "BackendModulePlugin" ->
            <<"B", "a", "c", "k", "e", "n", "d", "M", "o", "d", "u", "l", "e",
              "P", "l", "u", "g", "i", "n">>
      [] class_name = "FrontendModulePlugin" ->
            <<"F", "r", "o", "n", "t", "e", "n", "d", "M", "o", "d", "u", "l", "e",
              "P", "l", "u", "g", "i", "n">>
      [] class_name = "RequestMicroService" ->
            <<"R", "e", "q", "u", "e", "s", "t", "M", "i", "c", "r", "o",
              "S", "e", "r", "v", "i", "c", "e">>
      [] class_name = "ResponseMicroService" ->
            <<"R", "e", "s", "p", "o", "n", "s", "e", "M", "i", "c", "r", "o",
              "S", "e", "r", "v", "i", "c", "e">>

\* config["plugin"] == filter_class
ConfigPluginIs(cfg, filter_class) ==
    LET key == <<"p", "l", "u", "g", "i", "n">>
    IN  IF cfg.t = "unbound" THEN [raised |-> "UnboundLocalError", value |-> FALSE]
        ELSE IF cfg.t # "obj" THEN [raised |-> "TypeError", value |-> FALSE]
        ELSE IF \A n \in 1..Len(cfg.items) : cfg.items[n][1] # key
             THEN [raised |-> "KeyError", value |-> FALSE]
        ELSE LET n == CHOOSE n \in 1..Len(cfg.items) : cfg.items[n][1] = key
             IN  [raised |-> None,
                  value |-> cfg.items[n][2] = Str(CharsOf(filter_class))]

\* `_config and "plugin" in _config and config["plugin"] == filter_class`
BreakTest(_config, cfg, filter_class) ==
    IF Truthy(_config) /\ HasKey(_config, "plugin")
    THEN ConfigPluginIs(cfg, filter_class)
    ELSE [raised |-> None, value |-> FALSE]

RECURSIVE ScanPluginPath(_, _, _, _, _)
\* the `for path in plugin_path` loop of the ImportError handler:
\* the exception that leaves it, else the final value of _config
ScanPluginPath(paths, module_file_name, filter_class, cfg, _config) ==
    IF paths = <<>> THEN [raised |-> None, value |-> _config]
    ELSE LET text == FileAt(Head(paths), module_file_name)
         IN  IF text = NoFile
             THEN ScanPluginPath(Tail(paths), module_file_name, filter_class, cfg, _config)
             ELSE LET got == _config_loader(text)
                  IN  IF got.raised # None THEN got
                      ELSE LET brk == BreakTest(got.value, cfg, filter_class)
                           IN  IF brk.raised # None
                               THEN [raised |-> brk.raised, value |-> got.value]
                               ELSE IF brk.value THEN got
                               ELSE ScanPluginPath(Tail(paths), module_file_name,
                                                   filter_class, cfg, got.value)

RECURSIVE OpenedFiles(_, _, _, _)
\* the same loop seen from the file system: the open() calls that handed back a
\* file, in order, each as <<directory, file name>>
OpenedFiles(paths, module_file_name, filter_class, cfg) ==
    IF paths = <<>> THEN <<>>
    ELSE LET text == FileAt(Head(paths), module_file_name)
         IN  IF text = NoFile
             THEN OpenedFiles(Tail(paths), module_file_name, filter_class, cfg)
             ELSE LET got == _config_loader(text)
                      brk == BreakTest(got.value, cfg, filter_class)
                  IN  <<<<Head(paths), module_file_name>>>> \o
                      (IF got.raised # None \/ brk.raised # None \/ brk.value
                       THEN <<>>
                       ELSE OpenedFiles(Tail(paths), module_file_name, filter_class, cfg))

\* "MicroService" in _config["plugin"]
NamesMicroService(plugin) == plugin \in MicroMarkers

CannotCreate(r, module_file_name) ==
    [r EXCEPT !.log = Append(@, LogRecord("exception", "Cannot create the module", module_file_name))]

\* the micro service branch of the declarative resolver
LoadMicroServiceConfig(r, _config, module_file_name, internal_attributes) ==
    IF HasKey(_config, "plugin") /\ HasKey(_config, "module")
    THEN LET module_class == locate(_config.map.module)
         IN  IF module_class = None \/ Ctor(module_class) # "ok"
             THEN CannotCreate(r, module_file_name)
             ELSE [r EXCEPT !.loaded_plugins =
                     Append(@, Instance(module_class, None, <<>>,
                                        IF HasKey(_config, "config")
                                        THEN _config.map.config ELSE Unbound,
                                        internal_attributes))]
    ELSE [r EXCEPT !.log = Append(@, LogRecord("warn", "Missing micro service parameters",
                                               module_file_name))]

\* the names getattr(sys.modules[__name__], ...) finds that are not plugin classes
OtherGlobals == MicroMarkers \cup {"load_backends", "load_frontends", "logger", "json"}

\* the endpoint branch of the declarative resolver
LoadEndpointConfig(r, _config, module_file_name, base_url) ==
    IF \A k \in {"name", "plugin", "module", "config"} : HasKey(_config, k)
    THEN IF _config.map.plugin \notin EndpointMarkers \cup OtherGlobals
         THEN CannotCreate(r, module_file_name)
         ELSE LET plugin_class == _config.map.plugin
                  module_class == locate(_config.map.module)
                  name         == _config.map.name
                  config2      == SubstituteText(_config.map.config, base_url, name)
                  parsed       == json_loads(config2)
              IN  IF module_class = None THEN CannotCreate(r, module_file_name)
                  ELSE IF parsed.raised # None
                       THEN CannotCreate([r EXCEPT !.config = Text(config2)], module_file_name)
                  ELSE IF plugin_class \notin EndpointMarkers
                       THEN CannotCreate([r EXCEPT !.config = parsed.val], module_file_name)
                  ELSE [r EXCEPT
                          !.config = parsed.val,
                          !.loaded_plugins =
                              Append(@, Instance(plugin_class, module_class, name, parsed.val, None)),
                          !.loaded_plugin_names = Append(@, module_file_name)]
    ELSE [r EXCEPT !.log = Append(@, LogRecord("warn", "Missing plugin parameters",
                                               module_file_name))]

\* `if _config: try: ... except Exception: logger.exception(...)`
LoadFromConfig(r, _config, module_file_name, base_url, internal_attributes) ==
    IF ~Truthy(_config) THEN r
    ELSE IF HasKey(_config, "plugin") /\ NamesMicroService(_config.map.plugin)
         THEN LoadMicroServiceConfig(r, _config, module_file_name, internal_attributes)
         ELSE LoadEndpointConfig(r, _config, module_file_name, base_url)

\* the ImportError handler: an exception raised inside it leaves _load_plugins
\* as it is, the `except Exception` clause of the same try does not see it
OnImportError(r, module_file_name, path, filter_class, base_url, internal_attributes) ==
    LET r1   == [r EXCEPT !.log = Append(@, LogRecord("debug", "Not a py file or import error",
                                                      module_file_name)),
                          !.opened = @ \o OpenedFiles(path, module_file_name, filter_class,
                                                      r.config)]
        scan == ScanPluginPath(path, module_file_name, filter_class, r1.config, YamlNone)
    IN  IF scan.raised # None
        THEN [r1 EXCEPT !.exc = Raised(scan.raised, None, module_file_name)]
        ELSE LoadFromConfig(r1, scan.value, module_file_name, base_url, internal_attributes)

\* an `except Exception` clause that logs and goes on to the next identifier
OnException_log_only(r, module_file_name, error) ==
    [r EXCEPT !.log = Append(@, LogRecord("exception", "The configuration file is corrupt",
                                          module_file_name))]

\* the `except Exception` clause
OnException(r, module_file_name, error) ==
    [r EXCEPT !.log = Append(@, LogRecord("exception", "The configuration file is corrupt",
                                          module_file_name)),
              !.exc = Raised("SATOSAConfigurationError", error, module_file_name)]

\* inspect.getmembers(module, plugin_filter)
getmembers(module, plugin_filter, b) ==
    SelectSeq(module.members, LAMBDA obj : ApplyFilter(plugin_filter, obj, b) = "True")

RECURSIVE InstantiateMembers_once_per_name(_, _, _, _)
\* an inner loop that skips a module file name it has already loaded from
InstantiateMembers_once_per_name(r, objs, module_file_name, base_url) ==
    IF objs = <<>> THEN [raised |-> None, r |-> r]
    ELSE IF \E n \in 1..Len(r.loaded_plugin_names) : r.loaded_plugin_names[n] = module_file_name
         THEN [raised |-> None, r |-> r]
    ELSE IF Ctor(Head(objs)) # "ok" THEN [raised |-> Ctor(Head(objs)), r |-> r]
    ELSE InstantiateMembers_once_per_name(
            [r EXCEPT !.loaded_plugins = Append(@, NewCodePlugin(Head(objs), base_url)),
                      !.loaded_plugin_names = Append(@, module_file_name)],
            Tail(objs), module_file_name, base_url)

RECURSIVE InstantiateMembers(_, _, _, _)
\* the inner for loop of the try block: [raised, r]
InstantiateMembers(r, objs, module_file_name, base_url) ==
    IF objs = <<>> THEN [raised |-> None, r |-> r]
    ELSE IF Ctor(Head(objs)) # "ok" THEN [raised |-> Ctor(Head(objs)), r |-> r]
    ELSE InstantiateMembers(
            [r EXCEPT !.loaded_plugins = Append(@, NewCodePlugin(Head(objs), base_url)),
                      !.loaded_plugin_names = Append(@, module_file_name)],
            Tail(objs), module_file_name, base_url)

\* the try block
TryCodePlugin(r, module_file_name, plugin_filter, base_url, b) ==
    LET module == load_plugin(module_file_name)
    IN  IF module.load # "ok" THEN [raised |-> module.load, r |-> r]
        ELSE InstantiateMembers(r, getmembers(module, plugin_filter, b),
                                module_file_name, base_url)

\* one pass of `for module_file_name in plugins`
LoadOnePlugin(r, module_file_name, path, plugin_filter, filter_class, base_url, internal_attributes, b) ==
    LET try == TryCodePlugin(r, module_file_name, plugin_filter, base_url, b)
    IN  IF try.raised = None THEN try.r
        ELSE IF try.raised = "ImportError"
             THEN OnImportError(try.r, module_file_name, path, filter_class, base_url,
                                internal_attributes)
        ELSE OnException(try.r, module_file_name, try.raised)

EmptyLocals == Locals(<<>>, <<>>, Unbound, <<>>, NoExc, <<>>)

RECURSIVE LoadPluginsLoop(_, _, _, _, _, _, _, _)
\* the whole `for module_file_name in plugins` loop from the locals r on
LoadPluginsLoop(r, names, path, plugin_filter, filter_class, base_url, internal_attributes, b) ==
    IF names = <<>> \/ r.exc # NoExc THEN r
    ELSE LoadPluginsLoop(
            LoadOnePlugin(r, Head(names), path, plugin_filter, filter_class, base_url,
                          internal_attributes, b),
            Tail(names), path, plugin_filter, filter_class, base_url,
            internal_attributes, b)

(***************************************************************************)
(* _load_endpoint_modules and build_micro_service_queue                    *)
(***************************************************************************)
CALLBACK == "callback"

\* plugin.module(callback, internal_attributes, plugin.config, base_url, plugin.name)
ModuleInstance(plugin, callback, internal_attributes, base_url) ==
    [cls |-> plugin.module, callback |-> callback, internal_attributes |-> internal_attributes,
     config |-> plugin.config, base_url |-> base_url, name |-> plugin.name]

\* a dict assignment that keeps the entry a name already has
DictSet_setdefault(d, name, inst) ==
    [n \in DOMAIN d \cup {name} |-> IF n \in DOMAIN d THEN d[n] ELSE inst]

\* endpoint_modules[name] = inst
DictSet(d, name, inst) ==
    [n \in DOMAIN d \cup {name} |-> IF n = name THEN inst ELSE d[n]]

RECURSIVE AssembleFrom(_, _, _, _, _)
AssembleFrom(table, descriptors, base_url, callback, internal_attributes) ==
    IF descriptors = <<>> THEN [raised |-> None, value |-> table]
    ELSE LET plugin == Head(descriptors)
         IN  IF Ctor(plugin.module) # "ok"
             THEN [raised |-> Ctor(plugin.module), value |-> table]
             ELSE AssembleFrom(
                     DictSet(table, plugin.name,
                             ModuleInstance(plugin, callback, internal_attributes, base_url)),
                     Tail(descriptors), base_url, callback, internal_attributes)

_load_endpoint_modules(base_url, descriptors, callback, internal_attributes) ==
    AssembleFrom(<<>>, descriptors, base_url, callback, internal_attributes)

\* micro_service/service_base.py: the services linked in list order, the first returned
EmptyQueue == [empty |-> TRUE]

RECURSIVE build_micro_service_queue(_)
build_micro_service_queue(services) ==
    IF services = <<>> THEN EmptyQueue
    ELSE [empty |-> FALSE, service |-> Head(services),
          next |-> build_micro_service_queue(Tail(services))]

(***************************************************************************)
(* The entry points load_backends, load_frontends and load_micro_services  *)
(***************************************************************************)
Callers == {"load_backends", "load_frontends", "load_micro_services"}

\* load_micro_services handing the request filter to both of its calls
PluginFilterOf_request_twice(c, n) ==
    CASE c = "load_backends"  -> "backend_filter"
      [] c = "load_frontends" -> "frontend_filter"
      [] c = "load_micro_services" -> "_request_micro_service_filter"

\* the plugin_filter argument of the running _load_plugins call
PluginFilterOf(c, n) ==
    CASE c = "load_backends"  -> "backend_filter"
      [] c = "load_frontends" -> "frontend_filter"
      [] c = "load_micro_services" /\ n = 1 -> "_request_micro_service_filter"
      [] c = "load_micro_services" /\ n = 2 -> "_response_micro_service_filter"

\* its filter_class argument
FilterClassOf(c, n) ==
    CASE c = "load_backends"  -> "BackendModulePlugin"
      [] c = "load_frontends" -> "FrontendModulePlugin"
      [] c = "load_micro_services" /\ n = 1 -> "RequestMicroService"
      [] c = "load_micro_services" /\ n = 2 -> "ResponseMicroService"

\* its base_url argument
BaseUrlOf(c) == IF c = "load_micro_services" THEN <<>> ELSE BASE

\* its internal_attributes argument
InternalAttributesOf(c, n) ==
    IF c = "load_micro_services" /\ n = 2 THEN INTERNAL_ATTRIBUTES ELSE None

MaxPlugins == 3

SeqsUpTo(S, n) == UNION {[1..k -> S] : k \in 0..n}

\* search path lists: the directories in any order, none twice
Paths ==
    {p \in SeqsUpTo(Dirs, Cardinality(Dirs)) :
        \A a, b \in 1..Len(p) : a # b => p[a] # p[b]}

IdsOf(c) == IF c = "load_micro_services" THEN MicroIds ELSE EndpointIds

FilterIdle ==
    /\ member = None
    /\ verdict = [f \in FilterNames |-> None]

NoTemplate == [cfg |-> Null, base_url |-> <<>>, name |-> <<>>]

NotRendered == [raised |-> "not run", val |-> Null]

SubstIdle ==
    /\ template = NoTemplate
    /\ rendered = NotRendered

\* the frame of a _load_plugins call on entry
EnterLoadPlugins ==
    /\ idx = 1
    /\ loaded_plugins = <<>>
    /\ loaded_plugin_names = <<>>
    /\ config = Unbound

Init ==
    /\ bases = WorldBases
    /\ FilterIdle
    /\ SubstIdle
    /\ caller \in Callers
    /\ plugins \in SeqsUpTo(IdsOf(caller), MaxPlugins)
    /\ plugin_path \in Paths
    /\ call = 1
    /\ EnterLoadPlugins
    /\ log = <<>>
    /\ exc = NoExc
    /\ opened = <<>>
    /\ request_services = <<>>
    /\ endpoint_modules = <<>>
    /\ queues = <<>>
    /\ pc = "load"

\* one pass of the for loop of _load_plugins
LoadPluginsStep ==
    /\ pc = "load"
    /\ idx <= Len(plugins)
    /\ LET r == LoadOnePlugin(
                    Locals(loaded_plugins, loaded_plugin_names, config, log, exc, opened),
                    plugins[idx], plugin_path, PluginFilterOf(caller, call),
                    FilterClassOf(caller, call), BaseUrlOf(caller),
                    InternalAttributesOf(caller, call), bases)
       IN  /\ loaded_plugins' = r.loaded_plugins
           /\ loaded_plugin_names' = r.loaded_plugin_names
           /\ config' = r.config
           /\ log' = r.log
           /\ exc' = r.exc
           /\ opened' = r.opened
           /\ pc' = IF r.exc = NoExc THEN "load" ELSE "raised"
           /\ idx' = IF r.exc = NoExc THEN idx + 1 ELSE idx
    /\ UNCHANGED <<bases, filterVars, substVars, caller, plugin_path, plugins, call,
                   request_services, endpoint_modules, queues>>

\* the loop is over: _load_plugins logs and returns loaded_plugins to its caller
LoadPluginsReturn ==
    /\ pc = "load"
    /\ idx > Len(plugins)
    /\ log' = Append(log, LogRecord("debug", "Loaded plugins", loaded_plugin_names))
    /\ IF caller = "load_micro_services" /\ call = 1
       THEN /\ request_services' = loaded_plugins
            /\ call' = 2
            /\ idx' = 1
            /\ loaded_plugins' = <<>>
            /\ loaded_plugin_names' = <<>>
            /\ config' = Unbound
            /\ pc' = "load"
       ELSE /\ pc' = IF caller = "load_micro_services" THEN "build" ELSE "assemble"
            /\ UNCHANGED <<request_services, call, idx, loaded_plugins,
                           loaded_plugin_names, config>>
    /\ UNCHANGED <<bases, filterVars, substVars, caller, plugin_path, plugins, exc, opened,
                   endpoint_modules, queues>>

\* load_backends / load_frontends hand the plugins to _load_endpoint_modules
LoadEndpointModules ==
    /\ pc = "assemble"
    /\ LET got == _load_endpoint_modules(BASE, loaded_plugins, CALLBACK, INTERNAL_ATTRIBUTES)
       IN  IF got.raised = None
           THEN /\ endpoint_modules' = got.value
                /\ log' = Append(log, LogRecord("info", "Loaded modules", DOMAIN got.value))
                /\ pc' = "done"
                /\ exc' = exc
           ELSE /\ exc' = Raised(got.raised, None, None)
                /\ pc' = "raised"
                /\ UNCHANGED <<endpoint_modules, log>>
    /\ UNCHANGED <<bases, filterVars, substVars, caller, plugin_path, plugins, call, idx,
                   loaded_plugins, loaded_plugin_names, config, opened, request_services,
                   queues>>

\* load_micro_services logs both lists and builds the two queues
BuildQueues ==
    /\ pc = "build"
    /\ log' = log \o <<LogRecord("info", "Loaded request micro services",
                                 [k \in 1..Len(request_services) |-> request_services[k].cls]),
                       LogRecord("info", "Loaded response micro services",
                                 [k \in 1..Len(loaded_plugins) |-> loaded_plugins[k].cls])>>
    /\ queues' = <<build_micro_service_queue(request_services),
                   build_micro_service_queue(loaded_plugins)>>
    /\ pc' = "done"
    /\ UNCHANGED <<bases, filterVars, substVars, caller, plugin_path, plugins, call, idx,
                   loaded_plugins, loaded_plugin_names, config, exc, opened,
                   request_services, endpoint_modules>>

Next ==
    \/ LoadPluginsStep
    \/ LoadPluginsReturn
    \/ LoadEndpointModules
    \/ BuildQueues

Spec == Init /\ [][Next]_vars

(***************************************************************************)
(* The loop body of _load_plugins clause by clause: the try block and the  *)
(* except ImportError clause are steps of their own.                       *)
(***************************************************************************)
\* an except clause that takes whatever the try block raises to the file lookup
ExceptClause_import_error_for_all(raised) ==
    IF raised = None THEN None ELSE "except ImportError"

\* the except clause of the outer try that handles what its body raised
ExceptClause(raised) ==
    CASE raised = None          -> None
      [] raised = "ImportError" -> "except ImportError"
      [] OTHER                  -> "except Exception"

\* the frame of the running _load_plugins call
CurLocals == Locals(loaded_plugins, loaded_plugin_names, config, log, exc, opened)

\* the frame after a clause has run
SetLocals(r) ==
    /\ loaded_plugins' = r.loaded_plugins
    /\ loaded_plugin_names' = r.loaded_plugin_names
    /\ config' = r.config
    /\ log' = r.log
    /\ exc' = r.exc
    /\ opened' = r.opened

\* the try block for plugins[idx]; what it raises picks the clause that runs next, and
\* the `except Exception` clause, which only logs and raises, runs with it
TryBlock ==
    /\ pc = "load"
    /\ idx <= Len(plugins)
    /\ LET try    == TryCodePlugin(CurLocals, plugins[idx], PluginFilterOf(caller, call),
                                   BaseUrlOf(caller), bases)
           clause == ExceptClause(try.raised)
       IN  /\ SetLocals(IF clause = "except Exception"
                        THEN OnException(try.r, plugins[idx], try.raised)
                        ELSE try.r)
           /\ pc' = CASE clause = None                 -> "load"
                      [] clause = "except ImportError" -> "except ImportError"
                      [] OTHER                         -> "raised"
           /\ idx' = IF clause = None THEN idx + 1 ELSE idx
    /\ UNCHANGED <<bases, filterVars, substVars, caller, plugin_path, plugins, call,
                   request_services, endpoint_modules, queues>>

\* the `except ImportError` clause for plugins[idx]
ExceptImportError ==
    /\ pc = "except ImportError"
    /\ LET r == OnImportError(CurLocals, plugins[idx], plugin_path,
                              FilterClassOf(caller, call), BaseUrlOf(caller),
                              InternalAttributesOf(caller, call))
       IN  /\ SetLocals(r)
           /\ pc' = IF r.exc = NoExc THEN "load" ELSE "raised"
           /\ idx' = IF r.exc = NoExc THEN idx + 1 ELSE idx
    /\ UNCHANGED <<bases, filterVars, substVars, caller, plugin_path, plugins, call,
                   request_services, endpoint_modules, queues>>

ResolveNext ==
    \/ TryBlock
    \/ ExceptImportError
    \/ LoadPluginsReturn
    \/ LoadEndpointModules
    \/ BuildQueues

SpecResolve == Init /\ [][ResolveNext]_vars

(***************************************************************************)
(* The filters on their own: any class hierarchy a plugin module can       *)
(* declare over the markers, any exported member.                          *)
(***************************************************************************)
UserClasses == <<"U1", "U2">>

MaxBases == 2

\* the classes the k-th user class can name as a base: those defined before it
BaseChoices(k) == Markers \cup {"object"} \cup {UserClasses[j] : j \in 1..(k - 1)}

Hierarchies ==
    {h \in [{UserClasses[k] : k \in 1..Len(UserClasses)} -> SUBSET (BaseChoices(Len(UserClasses) + 1))] :
        \A k \in 1..Len(UserClasses) :
            /\ h[UserClasses[k]] \subseteq BaseChoices(k)
            /\ Cardinality(h[UserClasses[k]]) \in 1..MaxBases}

\* no entry point is running
LoaderIdle ==
    /\ caller = None
    /\ plugins = <<>>
    /\ plugin_path = <<>>
    /\ call = 1
    /\ EnterLoadPlugins
    /\ log = <<>>
    /\ exc = NoExc
    /\ opened = <<>>
    /\ request_services = <<>>
    /\ endpoint_modules = <<>>
    /\ queues = <<>>
    /\ pc = "idle"

FilterInit ==
    /\ bases \in Hierarchies
    /\ FilterIdle
    /\ SubstIdle
    /\ LoaderIdle

\* inspect.getmembers calls the predicate on one exported member
CallFilters ==
    /\ member = None
    /\ \E m \in Classes(bases) \cup NonClasses :
        /\ member' = m
        /\ verdict' = [f \in FilterNames |-> ApplyFilter(f, m, bases)]
    /\ UNCHANGED <<bases, loaderVars, substVars>>

FilterNext == CallFilters

SpecFilter == FilterInit /\ [][FilterNext]_vars

(***************************************************************************)
(* _load_endpoint_modules on its own: any list of plugin descriptors.      *)
(***************************************************************************)
MaxDescriptors == 3

DescriptorNames == {<<"A">>, <<"B">>, <<"C">>}

DescriptorConfigs == {Obj(<<>>), Obj(<< <<Chars_x, Str(Chars_one)>> >>)}

Descriptors ==
    {Instance("BackendModulePlugin", m, n, c, None) :
        m \in {"Legacy", "BadModule"}, n \in DescriptorNames, c \in DescriptorConfigs}

EndpointInit ==
    /\ bases = WorldBases
    /\ FilterIdle
    /\ SubstIdle
    /\ caller = "load_backends"
    /\ plugins = <<>>
    /\ plugin_path = <<>>
    /\ call = 1
    /\ idx = 1
    /\ loaded_plugins \in SeqsUpTo(Descriptors, MaxDescriptors)
    /\ loaded_plugin_names = <<>>
    /\ config = Unbound
    /\ log = <<>>
    /\ exc = NoExc
    /\ opened = <<>>
    /\ request_services = <<>>
    /\ endpoint_modules = <<>>
    /\ queues = <<>>
    /\ pc = "assemble"

EndpointNext == LoadEndpointModules

SpecEndpoint == EndpointInit /\ [][EndpointNext]_vars

(***************************************************************************)
(* The substitution of the endpoint branch on its own: any config value,   *)
(* base URL and declared name.                                             *)
(***************************************************************************)
TemplateStrings ==
    {<<>>, <<"a">>, NAME_TOKEN, BASE_URL_TOKEN, BASE_URL_TOKEN \o <<"/">> \o NAME_TOKEN,
     <<QUOTE, "a">>, <<BACKSLASH>> \o NAME_TOKEN}

TemplateConfigs ==
    {Str(v) : v \in TemplateStrings}
    \cup {Obj(<< <<Chars_x, Str(v)>> >>) : v \in TemplateStrings}
    \cup {Obj(<< <<Chars_x, Str(v)>>, <<<<"p">>, Num(<<"8", "0">>)>>,
                 <<<<"o">>, Obj(<< <<<<"u">>, Str(w)>>, <<<<"z">>, Null>> >>)>> >>) :
             v \in {<<"a">>, NAME_TOKEN}, w \in {BASE_URL_TOKEN, <<"a">>}}
    \cup {Obj(<< <<NAME_TOKEN, Str(<<"a">>)>>, <<Chars_legacy, Str(<<>>)>> >>), Obj(<<>>)}

TemplateBaseUrls == {BASE, <<>>, NAME_TOKEN, <<"h", QUOTE>>, <<"h", BACKSLASH>>}

TemplateNames == {Chars_legacy, Chars_x, <<"a", QUOTE, "n">>, BASE_URL_TOKEN}

SubstInit ==
    /\ bases = WorldBases
    /\ FilterIdle
    /\ LoaderIdle
    /\ template \in [cfg : TemplateConfigs, base_url : TemplateBaseUrls, name : TemplateNames]
    /\ rendered = NotRendered

\* json.dumps, the two replacements, json.loads
Substitute ==
    /\ rendered = NotRendered
    /\ rendered' = SubstituteConfig(template.cfg, template.base_url, template.name)
    /\ UNCHANGED <<bases, filterVars, loaderVars, template>>

SubstNext == Substitute

SpecSubst == SubstInit /\ [][SubstNext]_vars

(***************************************************************************)
(* Properties                                                              *)
(***************************************************************************)
\* the category marker a filter selects on, and the abstract markers of its family
FilterMarker(f) ==
    CASE f = "backend_filter"                 -> "BackendModulePlugin"
      [] f = "frontend_filter"                -> "FrontendModulePlugin"
      [] f = "_request_micro_service_filter"  -> "RequestMicroService"
      [] f = "_response_micro_service_filter" -> "ResponseMicroService"

FilterFamily(f) ==
    IF f \in {"backend_filter", "frontend_filter"} THEN EndpointMarkers ELSE MicroMarkers

IsBelow(c, X, b) == X \in Ancestors(c, b, Cardinality(Classes(b)))

\* C9: each capability filter answers True or False, never raises, and answers True
\* exactly for a class that is a transitive subclass of the filter's category marker
\* and is none of the abstract markers of its family.
C9_FiltersAcceptExactlyConcreteSubclasses ==
    member # None =>
        \A f \in FilterNames :
            /\ verdict[f] \in {"True", "False"}
            /\ verdict[f] = "True" <=>
                  /\ member \in Classes(bases)
                  /\ IsBelow(member, FilterMarker(f), bases)
                  /\ member \notin FilterFamily(f)

\* C9 witness: a class two class statements below BackendModulePlugin is accepted by
\* backend_filter alone.
C9_Witness ==
    /\ member = "U2"
    /\ bases["U2"] = {"U1"}
    /\ bases["U1"] = {"BackendModulePlugin"}
    /\ verdict["backend_filter"] = "True"
    /\ verdict["frontend_filter"] = "False"
    /\ verdict["_request_micro_service_filter"] = "False"

\* the last descriptor of ds that carries the name n
LastNamed(ds, n) ==
    ds[CHOOSE k \in 1..Len(ds) :
          ds[k].name = n /\ \A j \in (k + 1)..Len(ds) : ds[j].name # n]

Reorderings(ds) ==
    {[k \in 1..Len(ds) |-> ds[f[k]]] :
        f \in {g \in [1..Len(ds) -> 1..Len(ds)] :
                  \A x, y \in 1..Len(ds) : x # y => g[x] # g[y]}}

\* C4: the table _load_endpoint_modules returns has exactly the descriptors' names as
\* keys, each key holds the instance built from (callback, internal_attributes, config,
\* base_url, name) of the last descriptor carrying that name, and with all names
\* distinct every reordering of the list gives the same table.
C4_TableIsLastWriteWinsByName ==
    pc = "done" /\ caller \in {"load_backends", "load_frontends"} =>
        /\ DOMAIN endpoint_modules = {loaded_plugins[k].name : k \in 1..Len(loaded_plugins)}
        /\ \A n \in DOMAIN endpoint_modules :
              LET d == LastNamed(loaded_plugins, n)
              IN  endpoint_modules[n] =
                      [cls |-> d.module, callback |-> CALLBACK,
                       internal_attributes |-> INTERNAL_ATTRIBUTES,
                       config |-> d.config, base_url |-> BASE, name |-> n]
        /\ (\A x, y \in 1..Len(loaded_plugins) :
                x # y => loaded_plugins[x].name # loaded_plugins[y].name)
           => \A p \in Reorderings(loaded_plugins) :
                  _load_endpoint_modules(BASE, p, CALLBACK, INTERNAL_ATTRIBUTES)
                      = [raised |-> None, value |-> endpoint_modules]

\* C4 witness: three descriptors, the first and the last with the same name and
\* different configs, and the table holds the config of the last.
C4_Witness ==
    /\ pc = "done"
    /\ Len(loaded_plugins) = 3
    /\ loaded_plugins[1].name = loaded_plugins[3].name
    /\ loaded_plugins[1].config # loaded_plugins[3].config
    /\ loaded_plugins[2].name # loaded_plugins[1].name
    /\ endpoint_modules[loaded_plugins[1].name].config = loaded_plugins[3].config

RECURSIVE ReplacedInValues(_, _, _)
\* the config value with the two tokens replaced inside each of its string values
ReplacedInValues(v, base_url, name) ==
    CASE v.t = "str" ->
            Str(str_replace(str_replace(v.s, BASE_URL_TOKEN, base_url), NAME_TOKEN, name))
      [] v.t = "obj" ->
            Obj([k \in 1..Len(v.items) |->
                    <<v.items[k][1], ReplacedInValues(v.items[k][2], base_url, name)>>])
      [] OTHER -> v

\* C7: serialising the config, replacing <base_url> and then <name>, and parsing the
\* text again always succeeds and gives the config with the two tokens replaced inside
\* each of its string values, whatever the base URL and the name contain.
C7_SubstitutionCommutesWithParsing ==
    rendered # NotRendered =>
        rendered = [raised |-> None,
                    val |-> ReplacedInValues(template.cfg, template.base_url, template.name)]

\* ---- _load_plugins -----------------------------------------------------
\* the k-th identifier has been through the loop body of the running call
Attempted(k) == k \in 1..Len(plugins) /\ (idx > k \/ (pc = "raised" /\ idx = k))

\* an exception left _load_plugins from the loop body of the k-th identifier
AbortedAt(k) == pc = "raised" /\ idx = k

NothingReturned == endpoint_modules = <<>> /\ queues = <<>> /\ pc \notin {"assemble", "build", "done"}

NotCodeModule(id) == load_plugin(id).load = "ImportError"

\* the search-path directories that hold a file named id, in search-path order
DirsWithFile(id) == SelectSeq(plugin_path, LAMBDA d : FileAt(d, id) # NoFile)

FirstFile(id) == FileAt(DirsWithFile(id)[1], id)

CurFilter == PluginFilterOf(caller, call)

CurFilterClass == FilterClassOf(caller, call)

\* what the n-th _load_plugins call of the caller makes of the identifier id when it
\* is the only one of the list
Alone(id, n) ==
    LoadOnePlugin(EmptyLocals, id, plugin_path, PluginFilterOf(caller, n),
                  FilterClassOf(caller, n), BaseUrlOf(caller),
                  InternalAttributesOf(caller, n), bases)

HasCorruptFile(id) ==
    /\ NotCodeModule(id)
    /\ \E n \in 1..Len(plugin_path) :
          FileAt(plugin_path[n], id).yaml \in {"error_marked", "error_unmarked"}

\* C1: once the loop reaches an identifier that is no code module and has a same-named
\* file with a YAML syntax error on the search path, _load_plugins has raised
\* SATOSAConfigurationError, no other exception, and nothing is returned.
C1_CorruptFileRaisesConfigurationError ==
    \A k \in 1..Len(plugins) :
        Attempted(k) /\ HasCorruptFile(plugins[k]) =>
            /\ pc = "raised"
            /\ exc.type = "SATOSAConfigurationError"
            /\ NothingReturned

RequiredKeys(v) ==
    IF HasKey(v, "plugin") /\ NamesMicroService(v.map.plugin)
    THEN {"plugin", "module"}
    ELSE {"name", "plugin", "module", "config"}

LacksRequiredKey(text) ==
    /\ text.yaml = "ok"
    /\ text.value.kind = "map"
    /\ \E key \in RequiredKeys(text.value) : ~HasKey(text.value, key)

\* no code module, and every same-named file on the search path (if any) is a mapping
\* that lacks a required key
IsSoftFailure(id) ==
    /\ NotCodeModule(id)
    /\ \A n \in 1..Len(plugin_path) :
          FileAt(plugin_path[n], id) = NoFile \/ LacksRequiredKey(FileAt(plugin_path[n], id))

\* C2: an identifier that fails softly (no code module, and no same-named file or a
\* mapping that lacks a required key) raises nothing, contributes no plugin, and when
\* the loop is over the list is the one the other identifiers produce without it.
C2_SoftFailureNeverAbortsBatch ==
    \A k \in 1..Len(plugins) :
        Attempted(k) /\ IsSoftFailure(plugins[k]) =>
            /\ ~AbortedAt(k)
            /\ \A n \in 1..Len(loaded_plugin_names) : loaded_plugin_names[n] # plugins[k]
            /\ (pc = "load" /\ idx > Len(plugins)) =>
                  loaded_plugins =
                      LoadPluginsLoop(EmptyLocals,
                                      SelectSeq(plugins, LAMBDA id : id # plugins[k]),
                                      plugin_path, CurFilter, CurFilterClass,
                                      BaseUrlOf(caller), InternalAttributesOf(caller, call),
                                      bases).loaded_plugins

\* every identifier loads, on its own, as exactly one plugin in the n-th call
EachLoadsOne(n) ==
    \A k \in 1..Len(plugins) :
        Alone(plugins[k], n).exc = NoExc /\ Len(Alone(plugins[k], n).loaded_plugins) = 1

\* the list holds, position by position, the plugin of the identifier at that position
InDeclarationOrder(list, n) ==
    /\ Len(list) = Len(plugins)
    /\ \A k \in 1..Len(plugins) : list[k] = Alone(plugins[k], n).loaded_plugins[1]

RECURSIVE Traverse(_)
\* the services met from the entry point of a queue, following next
Traverse(q) == IF q.empty THEN <<>> ELSE <<q.service>> \o Traverse(q.next)

\* C3: when every identifier loads as exactly one plugin, the list a _load_plugins call
\* returns has one plugin per identifier, the k-th from the k-th identifier, repeated
\* identifiers included; the two lists load_micro_services hands to
\* build_micro_service_queue are such lists, and the queues visit them in that order.
C3_ListKeepsDeclarationOrder ==
    /\ (pc \in {"assemble", "build", "done"} /\ EachLoadsOne(call))
          => /\ InDeclarationOrder(loaded_plugins, call)
             /\ loaded_plugin_names = plugins
    /\ (caller = "load_micro_services" /\ pc \in {"build", "done"} /\ EachLoadsOne(1))
          => InDeclarationOrder(request_services, 1)
    /\ (caller = "load_micro_services" /\ pc = "done")
          => /\ Traverse(queues[1]) = request_services
             /\ Traverse(queues[2]) = loaded_plugins

\* C3 witness: three identifiers, the first repeated as the third, each loading one
\* request micro service, handed to build_micro_service_queue as a list of three.
C3_Witness ==
    /\ pc = "build"
    /\ Len(plugins) = 3
    /\ plugins[1] = plugins[3]
    /\ plugins[1] # plugins[2]
    /\ EachLoadsOne(1)
    /\ Len(request_services) = 3
    /\ request_services[1] = request_services[3]
    /\ request_services[1] # request_services[2]

IsUnresolvedEndpointFile(text) ==
    /\ text.yaml = "ok"
    /\ text.value.kind = "map"
    /\ \A key \in {"name", "plugin", "module", "config"} : HasKey(text.value, key)
    /\ text.value.map.plugin \in {"BackendModulePlugin", "FrontendModulePlugin"}
    /\ locate(text.value.map.module) = None

ConstructionError(id) ==
    LET module == load_plugin(id)
        objs   == getmembers(module, CurFilter, bases)
        bad    == {n \in 1..Len(objs) : Ctor(objs[n]) # "ok"}
    IN  IF module.load # "ok" \/ bad = {} THEN None
        ELSE Ctor(objs[CHOOSE n \in bad : \A j \in bad : n <= j])

\* C6 as stated: a constructor that raises anything but an import failure is skipped:
\* no exception leaves _load_plugins from that identifier and it contributes no plugin.
C6_ConstructionFailureIsSkipped ==
    \A k \in 1..Len(plugins) :
        Attempted(k) /\ ConstructionError(plugins[k]) \notin {None, "ImportError"} =>
            /\ ~AbortedAt(k)
            /\ \A n \in 1..Len(loaded_plugin_names) : loaded_plugin_names[n] # plugins[k]

\* C6 amended: when the constructor of a code plugin raises anything but an import
\* failure, _load_plugins raises SATOSAConfigurationError from that exception for that
\* identifier, and nothing is returned.
C6_CodeConstructionFailureAborts ==
    \A k \in 1..Len(plugins) :
        Attempted(k) /\ ConstructionError(plugins[k]) \notin {None, "ImportError"} =>
            /\ AbortedAt(k)
            /\ exc = Raised("SATOSAConfigurationError", ConstructionError(plugins[k]), plugins[k])
            /\ NothingReturned

\* C6 witness: a backend class raises ValueError in its constructor after an earlier
\* identifier of the batch was instantiated.
C6_Witness ==
    /\ pc = "raised"
    /\ Len(plugins) >= 2
    /\ idx = 2
    /\ plugins[2] = "bad_ctor"
    /\ ConstructionError("bad_ctor") = "ValueError"
    /\ exc = Raised("SATOSAConfigurationError", "ValueError", "bad_ctor")
    /\ Len(loaded_plugins) = 1

IsLoadableEndpointFile(text) ==
    /\ text.yaml = "ok"
    /\ text.value.kind = "map"
    /\ \A key \in {"name", "plugin", "module", "config"} : HasKey(text.value, key)
    /\ text.value.map.plugin = CurFilterClass
    /\ locate(text.value.map.module) # None
    /\ Ctor(locate(text.value.map.module)) = "ok"

\* C8: for an identifier that is no code module, the file of the first search-path
\* directory that holds one is the file parsed and instantiated: its plugin is in the
\* list, and no plugin of that identifier comes from a later directory.
C8_FirstDirectoryWins ==
    \A k \in 1..Len(plugins) :
        (/\ Attempted(k)
         /\ caller \in {"load_backends", "load_frontends"}
         /\ NotCodeModule(plugins[k])
         /\ DirsWithFile(plugins[k]) # <<>>
         /\ IsLoadableEndpointFile(FirstFile(plugins[k])))
        => /\ \E n \in 1..Len(loaded_plugins) : loaded_plugin_names[n] = plugins[k]
           /\ \A n \in 1..Len(loaded_plugins) :
                 loaded_plugin_names[n] = plugins[k] =>
                     /\ loaded_plugins[n].name = FirstFile(plugins[k]).value.map.name
                     /\ loaded_plugins[n].module = locate(FirstFile(plugins[k]).value.map.module)

\* the identifiers the n-th _load_plugins call logged as loaded
LoadedNames(n) == SelectSeq(log, LAMBDA rec : rec.msg = "Loaded plugins")[n].arg

Range(f) == {f[x] : x \in DOMAIN f}

\* the classes the files of id on the search path name in `module`, with the plugin
\* field of the file
DeclaredClasses(id) ==
    {<<locate(FileAt(d, id).value.map.module), FileAt(d, id).value.map.plugin>> :
        d \in {e \in Range(plugin_path) :
                  /\ FileAt(e, id).yaml = "ok"
                  /\ HasKey(FileAt(e, id).value, "plugin")
                  /\ HasKey(FileAt(e, id).value, "module")}}

\* every plugin of the list that a file of some identifier declares is declared with
\* the plugin field filter_class
OnlyDeclaredFor(list, filter_class) ==
    \A n \in 1..Len(list) : \A id \in Range(plugins) : \A dc \in DeclaredClasses(id) :
        list[n].cls = dc[1] => dc[2] = filter_class

\* C10 as stated: no identifier contributes to both the request list and the response
\* list, and a declarative file is instantiated only by the call whose filter_class is
\* its plugin field.
C10_IdentifierInOneCategoryOnly ==
    caller = "load_micro_services" /\ pc \in {"build", "done"} =>
        /\ Range(LoadedNames(1)) \cap Range(LoadedNames(2)) = {}
        /\ OnlyDeclaredFor(request_services, "RequestMicroService")
        /\ OnlyDeclaredFor(loaded_plugins, "ResponseMicroService")

\* C10 amended: every plugin of the request list is an instance of a class
\* _request_micro_service_filter accepts and every plugin of the response list of a
\* class _response_micro_service_filter accepts; an identifier contributes to both
\* lists only when its code module exports classes accepted by both filters.
C10_PluginInListOfItsFilter ==
    caller = "load_micro_services" /\ pc \in {"build", "done"} =>
        /\ \A n \in 1..Len(request_services) :
              _request_micro_service_filter(request_services[n].cls, bases) = "True"
        /\ \A n \in 1..Len(loaded_plugins) :
              _response_micro_service_filter(loaded_plugins[n].cls, bases) = "True"
        /\ \A id \in Range(LoadedNames(1)) \cap Range(LoadedNames(2)) :
              /\ load_plugin(id).load = "ok"
              /\ \E o \in Range(load_plugin(id).members) :
                    _request_micro_service_filter(o, bases) = "True"
              /\ \E o \in Range(load_plugin(id).members) :
                    _response_micro_service_filter(o, bases) = "True"

\* C10 witness: one identifier whose module exports a request class and a response
\* class, and one whose only class derives from both markers, are in both lists.
C10_Witness ==
    /\ pc = "build"
    /\ plugins = <<"mixed_svc", "dual_svc", "req_svc">>
    /\ LoadedNames(1) = <<"mixed_svc", "dual_svc", "req_svc">>
    /\ LoadedNames(2) = <<"mixed_svc", "dual_svc">>
    /\ request_services[2].cls = "ReqResp"
    /\ loaded_plugins[2].cls = "ReqResp"

(***************************************************************************)
(* C11: the two resolvers of one identifier                                *)
(***************************************************************************)
\* what the try block of the running call raises for the identifier id
TryRaises(id) ==
    TryCodePlugin(EmptyLocals, id, PluginFilterOf(caller, call), BaseUrlOf(caller), bases).raised

\* the open() calls a step adds are all for the identifier id
OpensOnlyFor(id) ==
    /\ Len(opened') >= Len(opened)
    /\ SubSeq(opened', 1, Len(opened)) = opened
    /\ \A n \in Len(opened) + 1 .. Len(opened') : opened'[n][2] = id

\* a step on the identifier at idx: it hands the identifier to the declarative resolver,
\* ends it in one terminal state, or aborts the batch
ResolvesInOrder ==
    LET id                == plugins[idx]
        CodeLoaded        == pc = "load" /\ TryRaises(id) = None /\ opened' = opened
        DeclarativeLoaded == /\ pc = "except ImportError"
                             /\ Len(loaded_plugins') > Len(loaded_plugins)
        Skipped           == pc = "except ImportError" /\ loaded_plugins' = loaded_plugins
        Terminal          == {s \in {"CodeLoaded", "DeclarativeLoaded", "Skipped"} :
                                 \/ s = "CodeLoaded" /\ CodeLoaded
                                 \/ s = "DeclarativeLoaded" /\ DeclarativeLoaded
                                 \/ s = "Skipped" /\ Skipped}
        Deferred          == /\ pc = "load" /\ pc' = "except ImportError"
                             /\ idx' = idx /\ call' = call
                             /\ TryRaises(id) = "ImportError"
                             /\ opened' = opened
        Completed         == /\ pc' = "load" /\ idx' = idx + 1 /\ call' = call
                             /\ exc' = NoExc
                             /\ Cardinality(Terminal) = 1
        Aborted           == pc' = "raised" /\ idx' = idx /\ call' = call /\ exc' # NoExc
    IN  /\ (pc \in {"load", "except ImportError"} /\ idx <= Len(plugins))
            => /\ Deferred \/ Completed \/ Aborted
               /\ OpensOnlyFor(id)
               /\ pc = "except ImportError" => ~Deferred
        /\ pc' = "except ImportError" => pc = "load" /\ idx <= Len(plugins) /\ Deferred
        /\ opened' # opened => pc = "except ImportError"

====
